---- MODULE Spec2Model ----
(***************************************************************************)
(* Model of the candidate-promotion orchestrator of SirioC,                *)
(* training/nnue/scripts/match_orchestrator.py.                            *)
(*                                                                         *)
(* One orchestrator process runs main(): it loads the history document,    *)
(* discovers candidate networks, and for each untested candidate runs the  *)
(* match tool, logs and parses its output, decides, promotes and records.  *)
(* The environment adds candidate files, ends the child process with an    *)
(* exit status and an output text, kills the orchestrator at any point and *)
(* starts it again.                                                        *)
(*                                                                         *)
(* Units and encodings                                                     *)
(*   - points are counted in half points (a win is 2, a draw is 1), so     *)
(*     that wins + 0.5 * draws stays an integer; the threshold is in the   *)
(*     same unit (0.5 point is 1).                                         *)
(*   - a text is a sequence of lines; a line is a record naming the        *)
(*     grammar it belongs to (or "noise") and the values its groups carry. *)
(*   - a name is a sequence of tokens; substring tests are tests for a     *)
(*     contiguous sub-sequence.                                            *)
(*   - the platform is POSIX: str(path) and path.as_posix() both join the  *)
(*     parts of a path with "/".  The candidate directory holds regular    *)
(*     files, so distinct entries resolve to distinct paths.               *)
(***************************************************************************)
EXTENDS Integers, Sequences, FiniteSets, TLC

VARIABLES
    \* configuration (argparse namespace), fixed for a behaviour
    interval,       \* args.interval
    threshold,      \* args.promotion_threshold, in half points
    args,           \* the arguments main() hands on to run_match
    deploy_path,    \* args.deploy_path
    \* durable state (file system)
    dir,            \* entries of args.validated_dir that match the pattern
    doc,            \* the history document at args.history
    deploy,         \* the deployment slot args.deploy_path and its backup
    logs,           \* raw log files written by run_match
    \* the orchestrator process
    pc,             \* position of main()
    history,        \* list `history`
    tested,         \* set `tested_candidates`
    queue,          \* rest of `new_candidates` still to iterate
    cur,            \* loop variable `candidate` (0: none)
    ts,             \* `timestamp` of the current iteration
    rc,             \* exit status of the last child process (-1: none yet)
    command,        \* argument list of the running child (<<>>: no child)
    output,         \* captured output of the child process
    stats,          \* result of parse_score
    promoted,       \* local `promoted`
    exc,            \* the exception that ended the process ("none": no one)
    \* environment and bookkeeping
    clock,          \* source of timestamps: iterations started so far
    loaded,         \* number of records main() found at its start
    pending,        \* the summary built by the current iteration
    appended,       \* records of the save_history calls completed so far
    prevSlot,       \* occupant of a file slot when promote_network was entered
    \* the KPI logger (tools/kpi_logger.py)
    tracker,        \* the KPITracker object
    fed,            \* what the info lines processed so far said
    \* the network downloader (scripts/download_nnue.py)
    NETWORKS,       \* the table NETWORKS
    output_dir,     \* the files of output_dir, by name
    fetch           \* run(): its arguments, locals and position

vars == <<interval, threshold, args, deploy_path, dir, doc, deploy, logs, pc, history,
          tested, queue, cur, ts, rc, command, output, stats, promoted, exc,
          clock, loaded, pending, appended, prevSlot, tracker, fed,
          NETWORKS, output_dir, fetch>>

\* State of the other programs of the repository; the orchestrator does not
\* touch it.
tools == <<tracker, fed, NETWORKS, output_dir, fetch>>

\* State of the orchestrator.
orchestrator ==
    <<interval, threshold, args, deploy_path, dir, doc, deploy, logs, pc,
      history, tested, queue, cur, ts, rc, command, output, stats, promoted,
      exc, clock, loaded, pending, appended, prevSlot>>

durable == <<dir, doc, deploy, logs>>
config == <<interval, threshold, args, deploy_path>>

----------------------------------------------------------------------------
(* Bounds of the model *)

MaxEntry == 2       \* directory entries 1..MaxEntry
MaxRuns == 2        \* loop iterations (timestamps) in a behaviour

Entries == 1..MaxEntry
Intervals == {0, 1}
Thresholds == {-1, 1}

None == <<>>

----------------------------------------------------------------------------
(* Paths and names *)

\* File name and stem (Path.name, Path.stem) of directory entry e; entries
\* are numbered in the lexicographic order of their paths.
FileName(e) ==
    CASE e = 1 -> "net1.nnue" [] e = 2 -> "net2.nnue" [] e = 3 -> "net3.nnue"
      [] e = 4 -> "net4.nnue" [] OTHER -> "net5.nnue"

StemOf(e) ==
    CASE e = 1 -> "net1" [] e = 2 -> "net2" [] e = 3 -> "net3"
      [] e = 4 -> "net4" [] OTHER -> "net5"

\* The path collect_candidates yields for entry e: args.validated_dir / name,
\* relative to the working directory.
CandidatePath(e) == [anchor |-> "", parts |-> <<"validated", FileName(e)>>]

\* Path.resolve(): the absolute path.
Resolve(p) ==
    IF p.anchor = "" THEN [anchor |-> "/", parts |-> <<"cwd">> \o p.parts] ELSE p

RECURSIVE Join(_, _)
Join(parts, sep) ==
    IF Len(parts) <= 1 THEN parts
    ELSE <<Head(parts), sep>> \o Join(Tail(parts), sep)

\* str(path) on a PosixPath, and path.as_posix().
PathStr(p) == <<p.anchor>> \o Join(p.parts, "/")
AsPosix(p) == <<p.anchor>> \o Join(p.parts, "/")

\* Bytes of the artifact behind entry e, and of the artifact that occupies an
\* existing file slot before the first promotion.
Bytes(e) == <<"bytes", FileName(e)>>
OldBytes == <<"bytes", "old">>

\* Bytes of the baseline network as it is when main starts.
BaselineBytes == <<"bytes", "baseline.nnue">>

BaselineName == <<"baseline">>
CandidateName(e) == <<StemOf(e)>>

\* Python's `sub in s` for names.
Contains(s, sub) ==
    \E i \in 0..(Len(s) - Len(sub)) :
        \A j \in 1..Len(sub) : s[i + j] = sub[j]

----------------------------------------------------------------------------
(* parse_score *)

ScoreLine(a, b, w, l, d) == [k |-> "score", a |-> a, b |-> b, w |-> w, l |-> l, d |-> d]
WinsLine(w, d, l) == [k |-> "wins", w |-> w, d |-> d, l |-> l]
FinalLine(a, pa, pb, b) == [k |-> "final", a |-> a, pa |-> pa, pb |-> pb, b |-> b]
ResultLine(w, l, d) == [k |-> "result", w |-> w, l |-> l, d |-> d]
NoiseLine == [k |-> "noise"]

\* Faulty variant of Patterns: the list in the opposite order.
Patterns_Reversed == <<"result", "final", "wins", "score">>

\* The patterns list, in order.
Patterns == <<"score", "wins", "final", "result">>

\* pattern.search(tool_output): index of the first line the pattern matches,
\* 0 when there is none.
Search(pattern, text) ==
    IF \E i \in 1..Len(text) : text[i].k = pattern
    THEN CHOOSE i \in 1..Len(text) :
            /\ text[i].k = pattern
            /\ \A j \in 1..(i - 1) : text[j].k # pattern
    ELSE 0

\* Faulty variant of FromMatch: a draw counts as a whole point for each side.
FromMatch_DrawsWhole(m, baseline_name) ==
    IF m.k = "final"
    THEN [err |-> "none", wins |-> m.pa, losses |-> m.pb, draws |-> 0,
          points_baseline |-> m.pa, points_candidate |-> m.pb]
    ELSE LET swap == m.k = "score" /\ baseline_name # <<>>
                     /\ ~Contains(m.a, baseline_name)
             wins == IF swap THEN m.l ELSE m.w
             losses == IF swap THEN m.w ELSE m.l
         IN [err |-> "none", wins |-> 2 * wins, losses |-> 2 * losses,
             draws |-> 2 * m.d,
             points_baseline |-> 2 * wins + 2 * m.d,
             points_candidate |-> 2 * losses + 2 * m.d]

\* Faulty variant of FromMatch: the numbers are taken in the order printed.
FromMatch_NoSwap(m, baseline_name) ==
    IF m.k = "final"
    THEN [err |-> "none", wins |-> m.pa, losses |-> m.pb, draws |-> 0,
          points_baseline |-> m.pa, points_candidate |-> m.pb]
    ELSE [err |-> "none", wins |-> 2 * m.w, losses |-> 2 * m.l,
          draws |-> 2 * m.d,
          points_baseline |-> 2 * m.w + m.d,
          points_candidate |-> 2 * m.l + m.d]

\* What parse_score returns on a match m of the pattern.  The five numbers
\* are in half points: each is twice the float the code returns.
FromMatch(m, baseline_name) ==
    IF m.k = "final"
    THEN [err |-> "none", wins |-> m.pa, losses |-> m.pb, draws |-> 0,
          points_baseline |-> m.pa, points_candidate |-> m.pb]
    ELSE LET swap == m.k = "score" /\ baseline_name # <<>>
                     /\ ~Contains(m.a, baseline_name)
             wins == IF swap THEN m.l ELSE m.w
             losses == IF swap THEN m.w ELSE m.l
         IN [err |-> "none", wins |-> 2 * wins, losses |-> 2 * losses,
             draws |-> 2 * m.d,
             points_baseline |-> 2 * wins + m.d,
             points_candidate |-> 2 * losses + m.d]

\* Faulty variant of ParseError: a missing group raises instead (None has no groups).
ParseError_MissingGroup == [err |-> "AttributeError"]

ParseError == [err |-> "ValueError"]

RECURSIVE Cascade(_, _, _)
Cascade(i, text, baseline_name) ==
    IF i > Len(Patterns) THEN ParseError
    ELSE LET at == Search(Patterns[i], text)
         IN IF at = 0 THEN Cascade(i + 1, text, baseline_name)
            ELSE FromMatch(text[at], baseline_name)

parse_score(tool_output, baseline_name, candidate_name) ==
    Cascade(1, tool_output, baseline_name)

----------------------------------------------------------------------------
(* should_promote *)

\* Faulty variant of should_promote: the comparison is not strict.
should_promote_NonStrict(points_baseline, points_candidate, thr) ==
    points_candidate - points_baseline >= thr

should_promote(points_baseline, points_candidate, thr) ==
    LET margin == points_candidate - points_baseline
    IN margin > thr

----------------------------------------------------------------------------
(* History document: json.dumps / json.loads, load_history, save_history *)

\* The document json.dumps(summaries) makes once it is written completely.
Dumps(summaries) == [state |-> "ok", recs |-> summaries]

\* The file right after open(path, "w") truncated it, and until the text is
\* written and flushed completely: a strict prefix of a JSON array, which
\* json.loads rejects.
TornDoc == [state |-> "torn", recs |-> <<>>]
AbsentDoc == [state |-> "absent", recs |-> <<>>]

\* load_history: the parsed document, the empty list when there is none.
\* Defined when the document is not torn (json.loads raises on a torn one).
load_history(d) == IF d.state = "ok" THEN d.recs ELSE <<>>

\* Faulty variant of LoadFails: the document is read without the exists()
\* test, so an absent one raises too.
LoadFails_NoExistsTest(d) == d.state # "ok"

\* load_history, lines 288-290: an absent document is not read; json.loads
\* raises on a torn one.
LoadFails(d) == d.state = "torn"

\* Faulty variant of save_history: only the newest record is written, not the list.
save_history_LastOnly(summaries) ==
    Dumps(IF summaries = <<>> THEN <<>> ELSE <<summaries[Len(summaries)]>>)

\* save_history's write of the complete list.
save_history(summaries) == Dumps(summaries)

----------------------------------------------------------------------------
(* collect_candidates and the discovery filter *)

RECURSIVE SortedSeq(_)
SortedSeq(S) ==
    IF S = {} THEN <<>>
    ELSE LET m == CHOOSE x \in S : \A y \in S : x <= y
         IN <<m>> \o SortedSeq(S \ {m})

\* Faulty variant of collect_candidates: the entries in the opposite order
\* (glob yields them in no particular order; here the descending one).
collect_candidates_Unsorted(directory) ==
    LET s == SortedSeq(directory)
    IN [i \in 1..Len(s) |-> s[Len(s) + 1 - i]]

\* Lines 298-299: sorted(directory.glob(pattern)).
collect_candidates(directory) == SortedSeq(directory)

RECURSIVE Filter(_, _)
Filter(cands, seen) ==
    IF cands = <<>> THEN <<>>
    ELSE LET c == Head(cands)
             rest == Filter(Tail(cands), seen)
         IN IF AsPosix(Resolve(CandidatePath(c))) \notin seen
            THEN <<c>> \o rest ELSE rest

\* Faulty variant of NewCandidates: the filter on the tested set is left out.
NewCandidates_Unfiltered(cands, seen) == cands

\* new_candidates of main.
NewCandidates(cands, seen) == Filter(cands, seen)

\* Faulty variant of TestedOf: the set starts empty whatever was loaded.
TestedOf_Unloaded(h) == {}

\* tested_candidates as built from the loaded history.
TestedOf(h) == {h[i].candidate : i \in 1..Len(h)}

----------------------------------------------------------------------------
(* build_tool_command *)

\* args.tool_path, args.engine and args.baseline_network.
ToolPath == [anchor |-> "", parts |-> <<"bin", "match-tool">>]
EnginePath == [anchor |-> "", parts |-> <<"bin", "sirio">>]
BaselineNetwork == [anchor |-> "", parts |-> <<"nets", "baseline.nnue">>]

\* A deployment path of its own, apart from every other path of the
\* configuration.
DeployPath == [anchor |-> "", parts |-> <<"deploy", "current.nnue">>]

\* One element of the argument list: a literal word, a path, str(n), or
\* f"key={value}".  The first component tells the kind of the second.
Lit(s) == <<"lit", s>>
PathArg(p) == <<"path", PathStr(p)>>
Num(n) == <<"int", n>>
Opt(key, value) == <<key, value>>

\* parse_args, lines 305-317: the defaults of the arguments handed to
\* run_match.  --opening is held as the str() of its path, <<>> when absent
\* (None); an absent --moves or --adjudication is 0 (`if moves:` treats None
\* and 0 alike).
DefaultArgs ==
    [tool |-> "cutechess", rounds |-> 100, concurrency |-> 2, opening |-> None,
     moves |-> 0, time_control |-> "40/5+0.1", threads |-> 1,
     adjudication |-> 0, extra_args |-> <<>>]

\* Arguments of a direct call of run_match; the tool selector is any string.
Tools == {"cutechess", "fastchess", "Cutechess", ""}
OpeningBook == [anchor |-> "", parts |-> <<"books", "openings.epd">>]
ArgSets ==
    [tool : Tools,
     rounds : {100},
     concurrency : {0, 2},
     opening : {None, PathStr(OpeningBook)},
     moves : {0, 40},
     time_control : {"", "40/5+0.1"},
     threads : {1, 4},
     adjudication : {0, 60},
     extra_args : {<<>>, <<Lit("-debug")>>, <<Lit("-a"), Lit("-b")>>}]

\* Faulty variant of EngineBlock: every participant is named "baseline".
EngineBlock_SameName(flag, name, engine_path, network, threads) ==
    <<Lit(flag), Opt("name=", BaselineName), Opt("cmd=", PathStr(engine_path)),
      Opt("option.EvalFile=", PathStr(network)), Opt("option.Threads=", threads)>>

\* Lines 150-156 and 178-189: one engine block.
EngineBlock(flag, name, engine_path, network, threads) ==
    <<Lit(flag), Opt("name=", name), Opt("cmd=", PathStr(engine_path)),
      Opt("option.EvalFile=", PathStr(network)), Opt("option.Threads=", threads)>>

\* Lines 134-175: the cutechess branch.
CutechessCommand(tool_path, engine_path, baseline_network, candidate_network, rounds, concurrency, opening, moves, time_control, threads, adjudication) ==
    <<PathArg(tool_path), Lit("-repeat"), Lit("-rounds"), Num(rounds),
      Lit("-tournament"), Lit("gauntlet")>>
    \o (IF concurrency # 0 THEN <<Lit("-concurrency"), Num(concurrency)>> ELSE <<>>)
    \o EngineBlock("-engine", BaselineName, engine_path, baseline_network, threads)
    \o EngineBlock("-engine", CandidateName(candidate_network), engine_path,
                   CandidatePath(candidate_network), threads)
    \o <<Lit("-games"), Num(rounds)>>
    \o (IF time_control # ""
        THEN <<Lit("-each"), Opt("tc=", time_control), Opt("timemargin=", 0)>>
        ELSE <<>>)
    \o (IF opening # None
        THEN <<Lit("-openings"), Opt("file=", opening), Opt("order=", "random")>>
        ELSE <<>>)
    \o (IF moves # 0
        THEN <<Lit("-draw"), Opt("movenumber=", moves), Opt("movecount=", 2), Opt("score=", 5)>>
        ELSE <<>>)
    \o (IF adjudication # 0
        THEN <<Lit("-resign"), Opt("movecount=", adjudication), Opt("score=", 400)>>
        ELSE <<>>)

\* Lines 177-208: the fastchess branch.
FastchessCommand(tool_path, engine_path, baseline_network, candidate_network, rounds, concurrency, opening, moves, time_control, threads, adjudication) ==
    <<PathArg(tool_path), Lit("run")>>
    \o EngineBlock("--engine", BaselineName, engine_path, baseline_network, threads)
    \o EngineBlock("--engine", CandidateName(candidate_network), engine_path,
                   CandidatePath(candidate_network), threads)
    \o <<Lit("--rounds"), Num(rounds), Lit("--games"), Num(rounds),
         Lit("--concurrency"), Num(IF concurrency # 0 THEN concurrency ELSE 1),
         Lit("--time-control"), Lit(time_control)>>
    \o (IF opening # None THEN <<Lit("--opening-file"), <<"path", opening>> >> ELSE <<>>)
    \o (IF moves # 0 THEN <<Lit("--draw-moves"), Num(moves)>> ELSE <<>>)
    \o (IF adjudication # 0
        THEN <<Lit("--adjudication-moves"), Num(adjudication)>>
        ELSE <<>>)

\* Faulty variant of build_tool_command: the extra arguments come first.
build_tool_command_ExtraFirst(tool, tool_path, engine_path, baseline_network, candidate_network, rounds, concurrency, opening, moves, time_control, threads, adjudication, extra_args) ==
    CASE tool = "cutechess" ->
           [err |-> "none",
            argv |-> extra_args \o
                     CutechessCommand(tool_path, engine_path, baseline_network,
                                      candidate_network, rounds, concurrency,
                                      opening, moves, time_control, threads,
                                      adjudication)]
      [] tool = "fastchess" ->
           [err |-> "none",
            argv |-> extra_args \o
                     FastchessCommand(tool_path, engine_path, baseline_network,
                                      candidate_network, rounds, concurrency,
                                      opening, moves, time_control, threads,
                                      adjudication)]
      [] OTHER -> [err |-> "ValueError", argv |-> <<>>]

\* Faulty variant of build_tool_command: an unknown selector falls back to
\* the cutechess branch.
build_tool_command_Fallback(tool, tool_path, engine_path, baseline_network, candidate_network, rounds, concurrency, opening, moves, time_control, threads, adjudication, extra_args) ==
    [err |-> "none",
     argv |-> (IF tool = "fastchess"
               THEN FastchessCommand(tool_path, engine_path, baseline_network,
                                     candidate_network, rounds, concurrency,
                                     opening, moves, time_control, threads,
                                     adjudication)
               ELSE CutechessCommand(tool_path, engine_path, baseline_network,
                                     candidate_network, rounds, concurrency,
                                     opening, moves, time_control, threads,
                                     adjudication))
              \o extra_args]

\* Lines 113-214.  candidate_network is the directory entry; its path and
\* stem are CandidatePath and CandidateName.  The result is the argument
\* list, or the exception raised.
build_tool_command(tool, tool_path, engine_path, baseline_network, candidate_network, rounds, concurrency, opening, moves, time_control, threads, adjudication, extra_args) ==
    CASE tool = "cutechess" ->
           [err |-> "none",
            argv |-> CutechessCommand(tool_path, engine_path, baseline_network,
                                      candidate_network, rounds, concurrency,
                                      opening, moves, time_control, threads,
                                      adjudication) \o extra_args]
      [] tool = "fastchess" ->
           [err |-> "none",
            argv |-> FastchessCommand(tool_path, engine_path, baseline_network,
                                      candidate_network, rounds, concurrency,
                                      opening, moves, time_control, threads,
                                      adjudication) \o extra_args]
      [] OTHER -> [err |-> "ValueError", argv |-> <<>>]

----------------------------------------------------------------------------
(* tools/kpi_logger.py: KPITracker *)

StabilityThreshold == 30    \* default of stability_threshold
MateScale == 100000         \* the centipawn scale mate distances are mapped to

Abs(n) == IF n < 0 THEN -n ELSE n

\* int(value) on the tokens used here; every other token is not a number.
IntOf(value) ==
    CASE value = "1" -> 1 [] value = "3" -> 3 [] value = "-2" -> -2
      [] value = "12" -> 12 [] value = "20" -> 20 [] value = "35" -> 35
      [] value = "50" -> 50 [] value = "81" -> 81 [] OTHER -> 0

Numerals == {"1", "3", "-2", "12", "20", "35", "50", "81"}

\* _safe_int: the number, None on a ValueError.  An optional number is the
\* empty sequence (None) or a sequence of one number.
safe_int(value) == IF value \in Numerals THEN <<IntOf(value)>> ELSE None

NoScore == [type |-> "", value |-> None]
NoData ==
    [depth |-> None, seldepth |-> None, time_ms |-> None, nodes |-> None,
     nps |-> None, score |-> NoScore, pv |-> <<>>]

\* The while loop of process_info, lines 26-52, from token i on (tokens are
\* counted from 1 here, so `i + 1 < len(tokens)` reads i + 1 <= Len(tokens)).
RECURSIVE Scan(_, _, _)
Scan(tokens, i, data) ==
    IF i > Len(tokens) THEN data
    ELSE LET token == tokens[i]
             more == i + 1 <= Len(tokens)
         IN CASE token = "depth" /\ more ->
                   Scan(tokens, i + 2, [data EXCEPT !.depth = safe_int(tokens[i + 1])])
              [] token = "seldepth" /\ more ->
                   Scan(tokens, i + 2, [data EXCEPT !.seldepth = safe_int(tokens[i + 1])])
              [] token = "time" /\ more ->
                   Scan(tokens, i + 2, [data EXCEPT !.time_ms = safe_int(tokens[i + 1])])
              [] token = "nodes" /\ more ->
                   Scan(tokens, i + 2, [data EXCEPT !.nodes = safe_int(tokens[i + 1])])
              [] token = "nps" /\ more ->
                   Scan(tokens, i + 2, [data EXCEPT !.nps = safe_int(tokens[i + 1])])
              [] token = "score" /\ i + 2 <= Len(tokens) ->
                   Scan(tokens, i + 3,
                        [data EXCEPT !.score = [type |-> tokens[i + 1],
                                                value |-> safe_int(tokens[i + 2])]])
              [] token = "pv" /\ more ->
                   [data EXCEPT !.pv = SubSeq(tokens, i + 1, Len(tokens))]
              [] OTHER -> Scan(tokens, i + 1, data)

\* _score_value, lines 56-68; an absent score is NoScore.
score_value(score) ==
    IF score = NoScore THEN None
    ELSE IF score.value = None THEN None
    ELSE IF score.type = "cp" THEN score.value
    ELSE IF score.type = "mate"
         THEN LET direction == IF score.value[1] >= 0 THEN 1 ELSE -1
              IN <<direction * (MateScale - Abs(score.value[1]))>>
    ELSE None

\* Faulty variant of Stable: a difference equal to the threshold is a jump.
Stable_Strict(t, best_move, numeric_score) ==
    /\ t.last_move = best_move
    /\ t.last_score # None
    /\ Abs(numeric_score - t.last_score[1]) < t.threshold

\* Lines 109-113: the update keeps the best move and the score within the
\* threshold.
Stable(t, best_move, numeric_score) ==
    /\ t.last_move = best_move
    /\ t.last_score # None
    /\ Abs(numeric_score - t.last_score[1]) <= t.threshold

\* _emit_update, lines 97-119, on tracker t: what it does to the object (the
\* printed line is left out).  No best move is "".
emit_update(t, data) ==
    LET best_move == IF data.pv # <<>> THEN data.pv[1] ELSE ""
        numeric_score == score_value(data.score)
    IN IF best_move # "" /\ numeric_score # None
       THEN [t EXCEPT !.stability = IF Stable(t, best_move, numeric_score[1])
                                    THEN t.stability + 1 ELSE 1,
                      !.last_move = best_move,
                      !.last_score = numeric_score]
       ELSE t

\* process_info, lines 22-54, on tracker t.
process_info(t, line) == emit_update(t, Scan(line, 2, NoData))

\* KPITracker(): lines 15-20.
NewTracker ==
    [last_move |-> "", last_score |-> None, stability |-> 0,
     threshold |-> StabilityThreshold]

\* An info line of the engine: its tokens (line.split()), and what it says
\* to a reader of the UCI protocol: the first move of its principal
\* variation ("" when it has none) and its score on the tracker's scale
\* (None when it has no cp or mate score with a number).
InfoLine(tokens, move, score) == [tokens |-> tokens, move |-> move, score |-> score]

InfoLines ==
    { InfoLine(<<"info", "depth", "12", "seldepth", "12", "score", "cp", "20",
                 "nodes", "12", "nps", "12", "time", "1", "pv", "e2e4", "e7e5">>,
               "e2e4", <<20>>),
      InfoLine(<<"info", "depth", "12", "score", "cp", "35", "pv", "e2e4">>,
               "e2e4", <<35>>),
      InfoLine(<<"info", "depth", "12", "score", "cp", "50", "upperbound", "pv", "e2e4">>,
               "e2e4", <<50>>),
      InfoLine(<<"info", "depth", "12", "score", "cp", "81", "pv", "e2e4">>,
               "e2e4", <<81>>),
      InfoLine(<<"info", "depth", "12", "score", "cp", "20", "pv", "d2d4">>,
               "d2d4", <<20>>),
      InfoLine(<<"info", "score", "mate", "3", "pv", "e2e4">>, "e2e4", <<99997>>),
      InfoLine(<<"info", "score", "mate", "1", "pv", "e2e4">>, "e2e4", <<99999>>),
      InfoLine(<<"info", "score", "mate", "-2", "pv", "e2e4">>, "e2e4", <<-99998>>),
      InfoLine(<<"info", "depth", "12", "score", "cp", "20">>, "", <<20>>),
      InfoLine(<<"info", "score", "cp", "20", "pv">>, "", <<20>>),
      InfoLine(<<"info", "depth", "12", "pv", "e2e4">>, "e2e4", None),
      InfoLine(<<"info", "score", "cp", "x", "pv", "e2e4">>, "e2e4", None),
      InfoLine(<<"info", "score", "lowerbound", "20", "pv", "e2e4">>, "e2e4", None),
      InfoLine(<<"info", "currmove", "e2e4", "currmovenumber", "1">>, "", None) }

----------------------------------------------------------------------------
(* scripts/download_nnue.py *)

\* sorted(NETWORKS.keys()).
NetworkNames == <<"nn-1c0000000000.nnue", "nn-37f18f62d772.nnue">>
Names == {NetworkNames[i] : i \in 1..Len(NetworkNames)}

\* What a file of output_dir holds: nothing (there is no such file), the
\* network that the url of `name` serves, the first part of it, or what is
\* there when a write was broken off.
Absent == <<>>
Good(name) == <<"bytes", name>>
Cut(name) == <<"cut", name>>
Partial == <<"partial">>

\* sha256sum, lines 49-54: the digest of a file's bytes, in lower-case
\* hexadecimal.  A digest is held as the bytes it stands for and the case
\* of its letters.
sha256sum(content) == [of |-> content, upper |-> FALSE]
Lower(digest) == [digest EXCEPT !.upper = FALSE]

\* verify, lines 67-77; expected is None or a sequence of one digest.
verify(content, expected) ==
    IF expected = None THEN TRUE
    ELSE Lower(sha256sum(content)) = Lower(expected[1])

\* The table as it is in the source (lines 15-24): no checksum is known.
ShippedTable == [name \in Names |-> [sha256 |-> None]]

\* The table with the checksums filled in, in lower or upper case.
Tables ==
    {ShippedTable}
    \cup {[name \in Names |-> [sha256 |-> <<[of |-> Good(name), upper |-> u]>>]] :
            u \in BOOLEAN}

\* run() is not being called.
FetchIdle ==
    [networks |-> <<>>, force |-> FALSE, exit_code |-> 0, pc |-> "idle",
     name |-> "", failures |-> {}]

----------------------------------------------------------------------------
(* The match tool's outputs the environment chooses from, for candidate e *)

OutputsFor(e) ==
    { <<>>,
      <<NoiseLine>>,
      <<NoiseLine, ScoreLine(BaselineName, CandidateName(e), 1, 2, 1)>>,
      <<FinalLine(BaselineName, 3, 4, CandidateName(e))>> }

----------------------------------------------------------------------------
(* Initial state *)

EmptyDeploy == [kind |-> "absent", file |-> None, bak |-> None, entries |-> {}]

Deployments ==
    { EmptyDeploy,
      [kind |-> "file", file |-> OldBytes, bak |-> None, entries |-> {}],
      [kind |-> "dir", file |-> None, bak |-> None,
       entries |-> {[name |-> "readme.txt", bytes |-> OldBytes]}] }

NoStats == [err |-> "unset"]

\* The other programs are not running.
ToolsIdle ==
    /\ tracker = NewTracker
    /\ fed = <<>>
    /\ NETWORKS = ShippedTable
    /\ output_dir = [name \in Names |-> Absent]
    /\ fetch = FetchIdle

Init ==
    /\ ToolsIdle
    /\ interval \in Intervals
    /\ threshold \in Thresholds
    /\ args = DefaultArgs
    /\ deploy_path = DeployPath
    /\ dir = {}
    /\ doc = AbsentDoc
    /\ deploy \in Deployments
    /\ logs = {}
    /\ pc = "start"
    /\ history = <<>>
    /\ tested = {}
    /\ queue = <<>>
    /\ cur = 0
    /\ ts = 0
    /\ rc = -1
    /\ command = <<>>
    /\ output = <<>>
    /\ stats = NoStats
    /\ promoted = FALSE
    /\ exc = "none"
    /\ clock = 0
    /\ loaded = 0
    /\ pending = None
    /\ appended = <<>>
    /\ prevSlot = None

\* The process's memory is gone: it ended with exception e (or "none").
Halt(newpc, e) ==
    /\ pc' = newpc
    /\ exc' = e
    /\ history' = <<>>
    /\ tested' = {}
    /\ queue' = <<>>
    /\ cur' = 0
    /\ ts' = 0
    /\ rc' = -1
    /\ command' = <<>>
    /\ output' = <<>>
    /\ stats' = NoStats
    /\ promoted' = FALSE
    /\ pending' = None
    /\ prevSlot' = None

\* The locals of a finished iteration are dead: each is assigned again before
\* the next iteration reads it.  The model clears them.
EndIteration ==
    /\ cur' = 0
    /\ ts' = 0
    /\ output' = <<>>
    /\ stats' = NoStats
    /\ promoted' = FALSE
    /\ pending' = None
    /\ prevSlot' = None

Live == {"start", "discover", "loop", "run", "child", "log", "parse", "decide",
         "promote", "copy", "record", "save", "saving", "sleep"}

----------------------------------------------------------------------------
(* main: start, discovery, the candidate loop *)

\* Lines 328-335: parse the arguments, load the history, build the tested
\* set.  json.loads raises on a torn document and ends the process.
Start ==
    /\ pc = "start"
    /\ IF LoadFails(doc)
       THEN /\ Halt("aborted", "JSONDecodeError")
            /\ UNCHANGED loaded
       ELSE /\ history' = load_history(doc)
            /\ loaded' = Len(load_history(doc))
            /\ tested' = TestedOf(load_history(doc))
            /\ pc' = "discover"
            /\ UNCHANGED <<queue, cur, ts, rc, command, output, stats, promoted, exc,
                           pending, prevSlot>>
    /\ UNCHANGED <<tools, config, durable, clock, appended>>

\* Faulty variant of RunOnce: an interval of 0 polls for ever.
RunOnce_NegativeOnly(iv) == iv < 0

\* Faulty variant of RunOnce: main returns after the first pass whatever the
\* interval.
RunOnce_Always(iv) == TRUE

\* Lines 341 and 410: `args.interval <= 0`, the single-pass mode.
RunOnce(iv) == iv <= 0

\* Lines 338-343: one discovery pass.
Discover ==
    /\ pc = "discover"
    /\ LET new_candidates == NewCandidates(collect_candidates(dir), tested)
       IN IF new_candidates = <<>> /\ RunOnce(interval)
          THEN Halt("exited", "none")
          ELSE /\ queue' = new_candidates
               /\ pc' = "loop"
               /\ UNCHANGED <<history, tested, cur, ts, rc, command, output, stats,
                              promoted, exc, pending, prevSlot>>
    /\ UNCHANGED <<tools, config, durable, clock, loaded, appended>>

\* Lines 345-348: the for loop takes the next candidate and stamps it.
LoopNext ==
    /\ pc = "loop"
    /\ queue # <<>>
    /\ clock < MaxRuns
    /\ cur' = Head(queue)
    /\ queue' = Tail(queue)
    /\ clock' = clock + 1
    /\ ts' = clock + 1
    /\ pc' = "run"
    /\ UNCHANGED <<tools, config, durable, history, tested, rc, command, output, stats,
                   promoted, exc, loaded, pending, appended, prevSlot>>

\* Lines 410-416: the candidates are exhausted.
LoopEnd ==
    /\ pc = "loop"
    /\ queue = <<>>
    /\ IF RunOnce(interval)
       THEN Halt("exited", "none")
       ELSE /\ pc' = "sleep"
            /\ UNCHANGED <<history, tested, queue, cur, ts, rc, command, output, stats,
                           promoted, exc, pending, prevSlot>>
    /\ UNCHANGED <<tools, config, durable, clock, loaded, appended>>

\* Line 414: time.sleep returns.
Sleep ==
    /\ pc = "sleep"
    /\ pc' = "discover"
    /\ UNCHANGED <<tools, config, durable, history, tested, queue, cur, ts, rc, command,
                   output, stats, promoted, exc, clock, loaded, pending,
                   appended, prevSlot>>

----------------------------------------------------------------------------
(* run_match *)

\* Lines 251-265: run_match's call of build_tool_command for the current
\* candidate.
Command ==
    build_tool_command(args.tool, ToolPath, EnginePath, BaselineNetwork, cur,
                       args.rounds, args.concurrency, args.opening, args.moves,
                       args.time_control, args.threads, args.adjudication,
                       args.extra_args)

\* Lines 251-274: the command is built and subprocess.run starts the child.
\* A ValueError of build_tool_command passes through run_match and through
\* main's handler at 367, which catches CalledProcessError only.
Spawn ==
    /\ pc = "run"
    /\ LET cmd == Command
       IN IF cmd.err # "none"
          THEN Halt("aborted", cmd.err)
          ELSE /\ command' = cmd.argv
               /\ pc' = "child"
               /\ UNCHANGED <<history, tested, queue, cur, ts, rc, output,
                              stats, promoted, exc, pending, prevSlot>>
    /\ UNCHANGED <<tools, config, durable, clock, loaded, appended>>

\* Line 267: subprocess.run cannot start the tool (OSError); main's handler
\* at 367 catches CalledProcessError only.
SpawnFail ==
    /\ pc = "run"
    /\ Command.err = "none"
    /\ Halt("aborted", "OSError:spawn")
    /\ UNCHANGED <<tools, config, durable, clock, loaded, appended>>

\* Faulty variant of AfterRunFailure: run_match goes on to its write_text.
AfterRunFailure_Logged == "log"

\* Faulty variant of AfterRunFailure: the exception is not caught.
AfterRunFailure_Uncaught == "aborted"

\* The handler of a non-zero exit status in main, lines 367-369: where the
\* loop goes on.
AfterRunFailure == "loop"

\* Faulty variant of Reaped: the child is started and not waited for.
Reaped_NoWait(cmd) == cmd

\* Lines 267-274: subprocess.run returns when the child has ended; no child
\* is left running.
Reaped(cmd) == <<>>

\* Lines 267-274 and 367-369: the child ends with status code and output out;
\* check=True raises CalledProcessError on a non-zero status.
ChildExit(code, out) ==
    /\ pc = "child"
    /\ rc' = code
    /\ command' = Reaped(command)
    /\ IF code # 0
       THEN /\ pc' = AfterRunFailure
            /\ EndIteration
       ELSE /\ pc' = "log"
            /\ output' = out
            /\ UNCHANGED <<cur, ts, stats, promoted, pending, prevSlot>>
    /\ UNCHANGED <<tools, config, durable, history, tested, queue, exc, clock,
                   loaded, appended>>

\* Name of the raw log of the current iteration (line 348).
RawLog == <<StemOf(cur), ts>>

\* Faulty variant of LogFile: only the first line reaches the file.
LogFile_FirstLine(name, text) ==
    [name |-> name, text |-> IF text = <<>> THEN text ELSE <<Head(text)>>]

\* Line 276: the file write_text leaves behind.
LogFile(name, text) == [name |-> name, text |-> text]

\* Line 276: the raw output is written to the log file.
WriteLog ==
    /\ pc = "log"
    /\ logs' = {l \in logs : l.name # RawLog} \cup {LogFile(RawLog, output)}
    /\ pc' = "parse"
    /\ UNCHANGED <<tools, config, dir, doc, deploy, history, tested, queue, cur, ts,
                   rc, command, output, stats, promoted, exc, clock, loaded, pending,
                   appended, prevSlot>>

\* Line 276: write_text raises OSError, which main does not catch.
WriteLogFail ==
    /\ pc = "log"
    /\ Halt("aborted", "OSError:log")
    /\ UNCHANGED <<tools, config, durable, clock, loaded, appended>>

----------------------------------------------------------------------------
(* main: parse, decide, promote, record *)

\* Lines 371-381: parse_score; a ValueError skips the candidate, any other
\* exception is not caught.
Parse ==
    /\ pc = "parse"
    /\ LET r == parse_score(output, BaselineName, CandidateName(cur))
       IN CASE r.err = "none" ->
                 /\ stats' = r
                 /\ pc' = "decide"
                 /\ UNCHANGED <<history, tested, queue, cur, ts, rc, command, output,
                                promoted, exc, pending, prevSlot>>
            [] r.err = "ValueError" ->
                 /\ pc' = "loop"
                 /\ EndIteration
                 /\ UNCHANGED <<history, tested, queue, rc, command, exc>>
            [] OTHER -> Halt("aborted", r.err)
    /\ UNCHANGED <<tools, config, durable, clock, loaded, appended>>

\* Lines 383-389: the decision.
Decide ==
    /\ pc = "decide"
    /\ promoted' = should_promote(stats.points_baseline, stats.points_candidate, threshold)
    /\ pc' = IF promoted' THEN "promote" ELSE "record"
    /\ prevSlot' = IF promoted' /\ deploy.kind = "file" THEN deploy.file ELSE None
    /\ UNCHANGED <<tools, config, durable, history, tested, queue, cur, ts, rc, command,
                   output, stats, exc, clock, loaded, pending, appended>>

\* Faulty variant of Backup: the slot is overwritten without a backup.
Backup_Skipped(d) == d

\* promote_network, lines 222-224: an existing file slot is copied aside.
Backup(d) == IF d.kind = "file" THEN [d EXCEPT !.bak = d.file] ELSE d

\* Faulty variant of CopyIn: a directory slot is emptied before the copy.
CopyIn_Replace(d, e) ==
    IF d.kind = "dir"
    THEN [d EXCEPT !.entries = {[name |-> FileName(e), bytes |-> Bytes(e)]}]
    ELSE [d EXCEPT !.kind = "file", !.file = Bytes(e)]

\* promote_network, lines 226-229: the candidate is copied into the slot.
CopyIn(d, e) ==
    IF d.kind = "dir"
    THEN [d EXCEPT !.entries = {x \in d.entries : x.name # FileName(e)}
                                 \cup {[name |-> FileName(e), bytes |-> Bytes(e)]}]
    ELSE [d EXCEPT !.kind = "file", !.file = Bytes(e)]

PromoteBackup ==
    /\ pc = "promote"
    /\ deploy' = Backup(deploy)
    /\ pc' = "copy"
    /\ UNCHANGED <<tools, config, dir, doc, logs, history, tested, queue, cur, ts, rc, command,
                   output, stats, promoted, exc, clock, loaded, pending,
                   appended, prevSlot>>

PromoteCopy ==
    /\ pc = "copy"
    /\ deploy' = CopyIn(deploy, cur)
    /\ pc' = "record"
    /\ UNCHANGED <<tools, config, dir, doc, logs, history, tested, queue, cur, ts, rc, command,
                   output, stats, promoted, exc, clock, loaded, pending,
                   appended, prevSlot>>

\* shutil.copy2 raises OSError (lines 224, 227, 229); main does not catch it.
PromoteFail ==
    /\ pc \in {"promote", "copy"}
    /\ Halt("aborted", "OSError:promote")
    /\ UNCHANGED <<tools, config, durable, clock, loaded, appended>>

\* Faulty variant of Summary: every record says promoted.
Summary_AlwaysPromoted ==
    [timestamp |-> ts,
     candidate |-> PathStr(Resolve(CandidatePath(cur))),
     wins_baseline |-> stats.wins,
     wins_candidate |-> stats.losses,
     draws |-> stats.draws,
     points_baseline |-> stats.points_baseline,
     points_candidate |-> stats.points_candidate,
     raw_output_path |-> RawLog,
     promoted |-> TRUE]

\* Lines 391-404: the MatchSummary of the current iteration, as a dict.
Summary ==
    [timestamp |-> ts,
     candidate |-> PathStr(Resolve(CandidatePath(cur))),
     wins_baseline |-> stats.wins,
     wins_candidate |-> stats.losses,
     draws |-> stats.draws,
     points_baseline |-> stats.points_baseline,
     points_candidate |-> stats.points_candidate,
     raw_output_path |-> RawLog,
     promoted |-> promoted]

\* Faulty variant of AppendSummary: the new record is put first.
AppendSummary_Prepend(h, s) == <<s>> \o h

\* Line 406: history.append.
AppendSummary(h, s) == Append(h, s)

\* Lines 391-407: build the summary, append it, mark the candidate tested.
Record ==
    /\ pc = "record"
    /\ history' = AppendSummary(history, Summary)
    /\ tested' = tested \cup {PathStr(Resolve(CandidatePath(cur)))}
    /\ pending' = Summary
    /\ pc' = "save"
    /\ UNCHANGED <<tools, config, durable, queue, cur, ts, rc, command, output, stats,
                   promoted, exc, clock, loaded, appended, prevSlot>>

\* save_history, line 295: write_text opens the file for writing, which
\* truncates it.
SaveOpen ==
    /\ pc = "save"
    /\ doc' = TornDoc
    /\ pc' = "saving"
    /\ UNCHANGED <<tools, config, dir, deploy, logs, history, tested, queue, cur, ts,
                   rc, command, output, stats, promoted, exc, clock, loaded, pending,
                   appended, prevSlot>>

\* save_history, line 295: the text is written and the file closed.
SaveClose ==
    /\ pc = "saving"
    /\ doc' = save_history(history)
    /\ appended' = Append(appended, pending)
    /\ pc' = "loop"
    /\ EndIteration
    /\ UNCHANGED <<tools, config, dir, deploy, logs, history, tested, queue, rc, command,
                   exc, clock, loaded>>

\* Faulty variant of AfterSaveFailure: the error is swallowed and the loop
\* goes on.
AfterSaveFailure_Ignored == "loop"

\* Line 408: no handler encloses save_history, the OSError ends main().
AfterSaveFailure == "aborted"

\* save_history raises OSError (the file cannot be opened, or the write
\* fails after the truncation); main does not catch it.
SaveFail ==
    /\ pc \in {"save", "saving"}
    /\ Halt(AfterSaveFailure, "OSError:save")
    /\ UNCHANGED <<tools, config, durable, clock, loaded, appended>>

----------------------------------------------------------------------------
(* Environment *)

\* An upstream producer writes a candidate into the validated directory.
AddCandidate(e) ==
    /\ e \notin dir
    /\ dir' = dir \cup {e}
    /\ UNCHANGED <<tools, config, doc, deploy, logs, pc, history, tested, queue, cur,
                   ts, rc, command, output, stats, promoted, exc, clock, loaded,
                   pending, appended, prevSlot>>

\* The process is killed; what is on disk stays as it is.
Kill ==
    /\ pc \in Live
    /\ Halt("dead", "none")
    /\ UNCHANGED <<tools, config, durable, clock, loaded, appended>>

\* main() is started again, as a fresh process.
Restart ==
    /\ pc \in {"dead", "exited", "aborted"}
    /\ pc' = "start"
    /\ exc' = "none"
    /\ loaded' = 0
    /\ UNCHANGED <<tools, config, durable, history, tested, queue, cur, ts, rc, command,
                   output, stats, promoted, clock, pending, appended, prevSlot>>

Next ==
    \/ Start
    \/ Discover
    \/ LoopNext
    \/ LoopEnd
    \/ Sleep
    \/ Spawn
    \/ SpawnFail
    \/ \E code \in {0, 1} : \E out \in OutputsFor(cur) : ChildExit(code, out)
    \/ WriteLog
    \/ WriteLogFail
    \/ Parse
    \/ Decide
    \/ PromoteBackup
    \/ PromoteCopy
    \/ PromoteFail
    \/ Record
    \/ SaveOpen
    \/ SaveClose
    \/ SaveFail
    \/ \E e \in Entries : AddCandidate(e)
    \/ Kill
    \/ Restart

Spec == Init /\ [][Next]_vars

----------------------------------------------------------------------------
(* run_match on its own: the call of main's loop body, with any arguments *)

\* main is about to call run_match for an entry of the directory; the tool
\* selector and the options are any of ArgSets.
InitCmd ==
    /\ ToolsIdle
    /\ interval = 0
    /\ threshold = 1
    /\ args \in ArgSets
    /\ deploy_path = DeployPath
    /\ dir = Entries
    /\ doc = AbsentDoc
    /\ deploy = EmptyDeploy
    /\ logs = {}
    /\ pc = "run"
    /\ history = <<>>
    /\ tested = {}
    /\ cur \in Entries
    /\ queue = <<>>
    /\ ts = 1
    /\ rc = -1
    /\ command = <<>>
    /\ output = <<>>
    /\ stats = NoStats
    /\ promoted = FALSE
    /\ exc = "none"
    /\ clock = 1
    /\ loaded = 0
    /\ pending = None
    /\ appended = <<>>
    /\ prevSlot = None

NextCmd ==
    \/ Spawn
    \/ SpawnFail
    \/ \E code \in {0, 1} : \E out \in OutputsFor(cur) : ChildExit(code, out)
    \/ WriteLog
    \/ WriteLogFail

SpecCmd == InitCmd /\ [][NextCmd]_vars

----------------------------------------------------------------------------
(* parse_score and the decision on their own, over the summary grammars *)

MaxCount == 2       \* wins, losses and draws of a reported triplet

\* The W-L-D triplets a tool reports: all up to the bound, 10-4-6, and
\* 60-50-0, which counts more games than the default --rounds (100).
Triplets ==
    ((0..MaxCount) \X (0..MaxCount) \X (0..MaxCount))
    \cup {<<10, 4, 6>>, <<60, 50, 0>>}

\* Names a tool prints for the candidate: its stem, and a stem that holds
\* the baseline identifier ("new-baseline").
PrintedNames == {CandidateName(1), <<"new", "-", "baseline">>}

\* The summary of grammar g (its index in Patterns) that reports triplet t
\* as the result of participant a against participant b.
Report(g, t, a, b) ==
    CASE g = 1 -> <<ScoreLine(a, b, t[1], t[2], t[3])>>
      [] g = 2 -> <<WinsLine(t[1], t[3], t[2])>>
      [] g = 3 -> <<FinalLine(a, 2 * t[1] + t[3], 2 * t[2] + t[3], b)>>
      [] OTHER -> <<ResultLine(t[1], t[2], t[3])>>

\* A running report followed by the final one: two lines of grammar g, the
\* first reporting 1-0-0, the last reporting t.
Running(g, t) ==
    Report(g, <<1, 0, 0>>, BaselineName, CandidateName(1))
    \o Report(g, t, BaselineName, CandidateName(1))

\* Two lines of different grammars: g1 reporting 1-0-0, then g2 reporting
\* 0-2-1.
Mixed(g1, g2) ==
    Report(g1, <<1, 0, 0>>, BaselineName, CandidateName(1))
    \o Report(g2, <<0, 2, 1>>, BaselineName, CandidateName(1))

\* Outputs handed to parse_score: every grammar reporting baseline-first,
\* the Score and Final score lines naming the candidate first, outputs with
\* several lines of one grammar, and outputs with lines of two grammars.
ParseTexts ==
    {Report(g, t, BaselineName, n) : g \in 1..4, t \in Triplets, n \in PrintedNames}
    \cup {Report(g, t, n, BaselineName) : g \in {1, 3}, t \in Triplets, n \in PrintedNames}
    \cup {Running(g, t) : g \in 1..4, t \in Triplets}
    \cup {Mixed(g1, g2) : g1 \in 1..4, g2 \in 1..4}

\* main has logged the output of the child for entry 1 and is about to call
\* parse_score on it.
InitParse ==
    /\ ToolsIdle
    /\ interval = 0
    /\ threshold \in Thresholds
    /\ args = DefaultArgs
    /\ deploy_path = DeployPath
    /\ dir = {1}
    /\ doc = AbsentDoc
    /\ deploy = EmptyDeploy
    /\ output \in ParseTexts
    /\ logs = {LogFile(<<StemOf(1), 1>>, output)}
    /\ pc = "parse"
    /\ history = <<>>
    /\ tested = {}
    /\ cur = 1
    /\ queue = <<>>
    /\ ts = 1
    /\ rc = 0
    /\ command = <<>>
    /\ stats = NoStats
    /\ promoted = FALSE
    /\ exc = "none"
    /\ clock = 1
    /\ loaded = 0
    /\ pending = None
    /\ appended = <<>>
    /\ prevSlot = None

NextParse ==
    \/ Parse
    \/ Decide
    \/ PromoteBackup
    \/ PromoteCopy
    \/ Record
    \/ SaveOpen
    \/ SaveClose

SpecParse == InitParse /\ [][NextParse]_vars

----------------------------------------------------------------------------
(* The orchestrator without faults: nothing kills it, no system call fails *)

\* The steps of main(); each is taken once it is enabled, because the
\* code runs on, every child process terminates and time.sleep returns.
Step ==
    \/ Start
    \/ Discover
    \/ LoopNext
    \/ LoopEnd
    \/ Sleep
    \/ Spawn
    \/ \E code \in {0, 1} : \E out \in OutputsFor(cur) : ChildExit(code, out)
    \/ WriteLog
    \/ Parse
    \/ Decide
    \/ PromoteBackup
    \/ PromoteCopy
    \/ Record
    \/ SaveOpen
    \/ SaveClose

NextLive ==
    \/ Step
    \/ \E e \in Entries : AddCandidate(e)

\* main is started with the default threshold and a deployment path at
\* which nothing exists yet.
InitLive ==
    /\ Init
    /\ threshold = 1
    /\ deploy = EmptyDeploy

LiveSpec == InitLive /\ [][NextLive]_vars /\ WF_vars(Step)

----------------------------------------------------------------------------
(* One pass over two candidates into a file slot *)

\* Bytes of the file at args.baseline_network: the slot's when the
\* deployment path is that very file.
BaselineFile ==
    IF deploy_path = BaselineNetwork /\ deploy.kind = "file"
    THEN deploy.file ELSE BaselineBytes

\* Outputs of the tool for candidate e: "Score of baseline vs <stem>:" with
\* 0 - 2 - 0, 0 - 1 - 0 and 1 - 0 - 0, margins of +2, +1 and -1 points.
PassOutputs(e) ==
    { <<ScoreLine(BaselineName, CandidateName(e), t[1], t[2], t[3])>> :
        t \in {<<0, 2, 0>>, <<0, 1, 0>>, <<1, 0, 0>>} }

\* main is started with the default threshold on a directory of two
\* candidates and no history; the deployment path is an existing file, its
\* own or the baseline network itself.
InitPass ==
    /\ ToolsIdle
    /\ interval \in Intervals
    /\ threshold = 1
    /\ args = DefaultArgs
    /\ deploy_path \in {DeployPath, BaselineNetwork}
    /\ dir = {1, 2}
    /\ doc = AbsentDoc
    /\ deploy = [kind |-> "file",
                 file |-> IF deploy_path = BaselineNetwork
                          THEN BaselineBytes ELSE OldBytes,
                 bak |-> None, entries |-> {}]
    /\ logs = {}
    /\ pc = "start"
    /\ history = <<>>
    /\ tested = {}
    /\ queue = <<>>
    /\ cur = 0
    /\ ts = 0
    /\ rc = -1
    /\ command = <<>>
    /\ output = <<>>
    /\ stats = NoStats
    /\ promoted = FALSE
    /\ exc = "none"
    /\ clock = 0
    /\ loaded = 0
    /\ pending = None
    /\ appended = <<>>
    /\ prevSlot = None

\* No fault occurs and every run of the tool exits 0.
NextPass ==
    \/ Start
    \/ Discover
    \/ LoopNext
    \/ LoopEnd
    \/ Sleep
    \/ Spawn
    \/ \E out \in PassOutputs(cur) : ChildExit(0, out)
    \/ WriteLog
    \/ Parse
    \/ Decide
    \/ PromoteBackup
    \/ PromoteCopy
    \/ Record
    \/ SaveOpen
    \/ SaveClose

SpecPass == InitPass /\ [][NextPass]_vars

----------------------------------------------------------------------------
(* The KPI logger on its own: a tracker fed with info lines *)

MaxLines == 3       \* info lines fed to one tracker

\* The orchestrator is not running.
OrchestratorIdle ==
    /\ interval = 0
    /\ threshold = 1
    /\ args = DefaultArgs
    /\ deploy_path = DeployPath
    /\ dir = {}
    /\ doc = AbsentDoc
    /\ deploy = EmptyDeploy
    /\ logs = {}
    /\ pc = "start"
    /\ history = <<>>
    /\ tested = {}
    /\ queue = <<>>
    /\ cur = 0
    /\ ts = 0
    /\ rc = -1
    /\ command = <<>>
    /\ output = <<>>
    /\ stats = NoStats
    /\ promoted = FALSE
    /\ exc = "none"
    /\ clock = 0
    /\ loaded = 0
    /\ pending = None
    /\ appended = <<>>
    /\ prevSlot = None

InitKpi ==
    /\ OrchestratorIdle
    /\ ToolsIdle

\* The logger reads an info line of the engine and hands it to process_info.
ProcessInfo(line) ==
    /\ Len(fed) < MaxLines
    /\ tracker' = process_info(tracker, line.tokens)
    /\ fed' = Append(fed, [move |-> line.move, score |-> line.score])
    /\ UNCHANGED <<orchestrator, NETWORKS, output_dir, fetch>>

NextKpi == \E line \in InfoLines : ProcessInfo(line)

SpecKpi == InitKpi /\ [][NextKpi]_vars

----------------------------------------------------------------------------
(* The downloader on its own: one call of run() *)

MaxNetworks == 2    \* length of the list of networks handed to run()

\* The lists of names of at most n elements.
RECURSIVE Lists(_)
Lists(n) ==
    IF n = 0 THEN {<<>>}
    ELSE Lists(n - 1)
         \cup {Append(q, name) : q \in {l \in Lists(n - 1) : Len(l) = n - 1},
                                 name \in Names}

\* run(networks, output_dir, force) is entered (line 81); the directory
\* holds older files under some of the names.
InitFetch ==
    /\ OrchestratorIdle
    /\ tracker = NewTracker
    /\ fed = <<>>
    /\ NETWORKS \in Tables
    /\ output_dir \in [Names -> {Absent, OldBytes}]
    /\ fetch \in [networks : Lists(MaxNetworks), force : BOOLEAN, exit_code : {0},
                  pc : {"loop"}, name : {""}, failures : {{}}]

\* Lines 82-88: the loop takes the next name; a target that exists is
\* skipped unless force is set.
RunNext ==
    /\ fetch.pc = "loop"
    /\ fetch.networks # <<>>
    /\ LET name == Head(fetch.networks)
       IN IF output_dir[name] # Absent /\ ~fetch.force
          THEN fetch' = [fetch EXCEPT !.networks = Tail(fetch.networks)]
          ELSE fetch' = [fetch EXCEPT !.networks = Tail(fetch.networks),
                                      !.name = name, !.pc = "download"]
    /\ UNCHANGED <<orchestrator, tracker, fed, NETWORKS, output_dir>>

\* Line 102: the list is exhausted, run returns exit_code.
RunReturn ==
    /\ fetch.pc = "loop"
    /\ fetch.networks = <<>>
    /\ fetch' = [fetch EXCEPT !.pc = "returned"]
    /\ UNCHANGED <<orchestrator, tracker, fed, NETWORKS, output_dir>>

\* download, lines 57-64, returns: the response was read to its end, the
\* whole network or, when the server closed a response of declared length
\* early (read() then returns b""), its first part.
DownloadDone(content) ==
    /\ fetch.pc = "download"
    /\ output_dir' = [output_dir EXCEPT ![fetch.name] = content]
    /\ fetch' = [fetch EXCEPT !.pc = "verify"]
    /\ UNCHANGED <<orchestrator, tracker, fed, NETWORKS>>

\* The target as download leaves it when it raises: as it was when urlopen
\* raised, broken off when the file was already opened for writing.
Left(files, name, opened) ==
    IF opened THEN [files EXCEPT ![name] = Partial] ELSE files

\* Lines 93-97: the handler removes the target if there is one; an OSError
\* of unlink is passed over.
Unlinked(files, name, ok) ==
    IF files[name] # Absent /\ ok THEN [files EXCEPT ![name] = Absent] ELSE files

\* Lines 89-99: download raises OSError or URLError; the handler cleans up,
\* sets the exit code and goes on with the loop.
DownloadFails(opened, ok) ==
    /\ fetch.pc = "download"
    /\ output_dir' = Unlinked(Left(output_dir, fetch.name, opened), fetch.name, ok)
    /\ fetch' = [fetch EXCEPT !.pc = "loop", !.exit_code = 1,
                              !.failures = @ \cup {fetch.name}]
    /\ UNCHANGED <<orchestrator, tracker, fed, NETWORKS>>

\* download raises an exception that is neither OSError nor URLError: an
\* http.client.HTTPException such as BadStatusLine (from urlopen) or
\* IncompleteRead (from read() on a chunked response).  No handler of run
\* catches it.
DownloadRaises(opened) ==
    /\ fetch.pc = "download"
    /\ output_dir' = Left(output_dir, fetch.name, opened)
    /\ fetch' = [fetch EXCEPT !.pc = "raised", !.failures = @ \cup {fetch.name}]
    /\ UNCHANGED <<orchestrator, tracker, fed, NETWORKS>>

\* Lines 100-101: the checksum of the downloaded file.
Verify ==
    /\ fetch.pc = "verify"
    /\ IF verify(output_dir[fetch.name], NETWORKS[fetch.name].sha256)
       THEN fetch' = [fetch EXCEPT !.pc = "loop"]
       ELSE fetch' = [fetch EXCEPT !.pc = "loop", !.exit_code = 1,
                                   !.failures = @ \cup {fetch.name}]
    /\ UNCHANGED <<orchestrator, tracker, fed, NETWORKS, output_dir>>

NextFetch ==
    \/ RunNext
    \/ RunReturn
    \/ \E content \in {Good(fetch.name), Cut(fetch.name)} : DownloadDone(content)
    \/ \E opened, ok \in BOOLEAN : DownloadFails(opened, ok)
    \/ \E opened \in BOOLEAN : DownloadRaises(opened)
    \/ Verify

SpecFetch == InitFetch /\ [][NextFetch]_vars

----------------------------------------------------------------------------
(* A start on a history document that other hands have written *)

\* Spellings of the path of entry e that a history document may hold: the one
\* main writes, str(candidate.resolve()), and the path as discovered,
\* relative to the working directory.
Spellings(e) == {PathStr(Resolve(CandidatePath(e))), PathStr(CandidatePath(e))}

\* A record of an earlier evaluation of entry e, its path spelled s.
PriorRecord(e, s) ==
    [timestamp |-> 0,
     candidate |-> s,
     wins_baseline |-> 2,
     wins_candidate |-> 2,
     draws |-> 0,
     points_baseline |-> 2,
     points_candidate |-> 2,
     raw_output_path |-> <<StemOf(e), 0>>,
     promoted |-> FALSE]

\* main is started on a document that holds one record of entry 1, which is
\* still in the directory.
InitResume ==
    /\ ToolsIdle
    /\ interval \in Intervals
    /\ threshold = 1
    /\ args = DefaultArgs
    /\ deploy_path = DeployPath
    /\ dir = {1}
    /\ doc \in {Dumps(<<PriorRecord(1, s)>>) : s \in Spellings(1)}
    /\ deploy = EmptyDeploy
    /\ logs = {}
    /\ pc = "start"
    /\ history = <<>>
    /\ tested = {}
    /\ queue = <<>>
    /\ cur = 0
    /\ ts = 0
    /\ rc = -1
    /\ command = <<>>
    /\ output = <<>>
    /\ stats = NoStats
    /\ promoted = FALSE
    /\ exc = "none"
    /\ clock = 0
    /\ loaded = 0
    /\ pending = None
    /\ appended = <<>>
    /\ prevSlot = None

SpecResume == InitResume /\ [][NextLive]_vars


\* The string the orchestrator records for directory entry e.
RecordedPath(e) == PathStr(Resolve(CandidatePath(e)))

\* The document d holds a record of entry e.
Recorded(d, e) == \E i \in 1..Len(d.recs) : d.recs[i].candidate = RecordedPath(e)

\* Point margin of the parsed statistics, candidate over baseline.
Margin == stats.points_candidate - stats.points_baseline

\* C1: idempotent resume.  Once the history document holds a record of a
\* candidate, the match tool is not run on that candidate again, neither by
\* a later cycle nor by a freshly started process, and the document never
\* holds two records of one candidate path.
C1_IdempotentResume ==
    /\ \A i, j \in 1..Len(doc.recs) :
          doc.recs[i].candidate = doc.recs[j].candidate => i = j
    /\ pc \in {"run", "child"} => ~Recorded(doc, cur)

\* A fresh process, which found a record of entry 1 in the document, runs the
\* tool on entry 2 while entry 1 is still in the directory.
C1_Witness ==
    /\ loaded >= 1
    /\ pc = "child"
    /\ cur = 2
    /\ 1 \in dir
    /\ Recorded(doc, 1)

\* C2: a kill while save_history is writing never leaves the history document
\* partially written: the document a fresh process finds is parseable.
C2_KillLeavesHistoryParseable ==
    pc = "dead" => doc.state # "torn"

\* Entries whose bytes promote_network has copied into the deployment slot.
InSlot ==
    {e \in Entries :
        \/ deploy.file = Bytes(e)
        \/ [name |-> FileName(e), bytes |-> Bytes(e)] \in deploy.entries}

\* C3: at every point where the process can be killed, every candidate that
\* was copied into the deployment slot has a record with promoted = true in
\* the history document.
C3_PromotionIsRecorded ==
    \A e \in InSlot :
        \E i \in 1..Len(doc.recs) :
            /\ doc.recs[i].candidate = RecordedPath(e)
            /\ doc.recs[i].promoted

\* C4: outside of a save_history call the history document is parseable and
\* holds exactly the records of the completed appends, in append order; so a
\* process killed between two save_history calls leaves that document, and a
\* fresh process starts from exactly those records.
C4_CrashBetweenAppends ==
    /\ pc \in (Live \ {"start", "saving"}) => doc.state # "torn"
    /\ doc.state # "torn" => load_history(doc) = appended
    /\ pc = "discover" => history = appended

\* The process was killed in its second iteration, after the first append was
\* saved and before the second save began.
C4_Witness ==
    /\ pc = "dead"
    /\ clock = 2
    /\ Len(appended) = 1
    /\ doc = Dumps(appended)

\* C5: the history is append-only.  Every completed save_history writes the
\* sequence that was loaded or previously saved, unchanged and in order,
\* followed by exactly one new record; the list in memory only grows at its
\* end, one record at a time.
C5_AppendOnly ==
    [][ /\ (doc' # doc /\ doc'.state = "ok") =>
              /\ Len(doc'.recs) = Len(appended) + 1
              /\ SubSeq(doc'.recs, 1, Len(appended)) = appended
        /\ (history' # history /\ pc \in (Live \ {"start"}) /\ pc' \in Live) =>
              /\ Len(history') = Len(history) + 1
              /\ SubSeq(history', 1, Len(history)) = history
      ]_vars

\* The document holds two records: the earlier one and the one appended to it.
C5_Witness ==
    /\ doc.state = "ok"
    /\ Len(doc.recs) = 2
    /\ doc.recs = appended

\* C6: when the match tool exits with a non-zero status, the candidate is not
\* promoted and not recorded, the tested set, the history and the deployment
\* slot stay as they are, the loop goes on with the rest of the cycle's
\* candidates, and the discovery filter still selects the candidate; every
\* discovery pass selects each directory entry that has no record.
C6_RunFailureSkips ==
    [][ /\ (pc = "child" /\ pc' \notin {"child", "log", "dead"}) =>
              /\ pc' = "loop"
              /\ queue' = queue
              /\ history' = history
              /\ tested' = tested
              /\ doc' = doc
              /\ deploy' = deploy
              /\ ~Recorded(doc', cur)
              /\ \E i \in 1..Len(NewCandidates(collect_candidates(dir'), tested')) :
                    NewCandidates(collect_candidates(dir'), tested')[i] = cur
        /\ (pc = "discover" /\ pc' \notin {"discover", "dead"}) =>
              \A e \in dir :
                  ~Recorded(doc, e) =>
                      /\ pc' = "loop"
                      /\ \E i \in 1..Len(queue') : queue'[i] = e
      ]_vars

\* The run of entry 1, the only candidate, exited with status 1; nothing was
\* logged or recorded, and the next discovery pass has selected entry 1 again.
C6_Witness ==
    /\ pc = "loop"
    /\ rc = 1
    /\ dir = {1}
    /\ queue = <<1>>
    /\ doc.state = "absent"
    /\ logs = {}

\* The text matches none of the four patterns.
Unmatched(text) == \A i \in 1..Len(text) : text[i].k = "noise"

\* C7: on an output that matches none of the four patterns, the empty one
\* included, parse_score fails with its ValueError and with no other error;
\* the candidate is not promoted, not recorded and stays untested, and the
\* loop goes on with the next candidate.
C7_UnparseableSkips ==
    [][ (pc = "parse" /\ Unmatched(output) /\ pc' \notin {"parse", "dead"}) =>
              /\ parse_score(output, BaselineName, CandidateName(cur)).err = "ValueError"
              /\ pc' = "loop"
              /\ exc' = "none"
              /\ queue' = queue
              /\ history' = history
              /\ tested' = tested
              /\ doc' = doc
              /\ deploy' = deploy
              /\ RecordedPath(cur) \notin tested'
              /\ ~Recorded(doc', cur)
      ]_vars

\* The empty output of entry 1 was logged and not parsed; the loop is back at
\* its head with entry 2 still to come and nothing recorded.
C7_Witness ==
    /\ pc = "loop"
    /\ queue = <<2>>
    /\ \E l \in logs : l.name[1] = StemOf(1) /\ l.text = <<>>
    /\ history = <<>>
    /\ doc.state = "absent"

\* C8: no failure that concerns a single candidate ends the process: not a
\* tool that cannot be started, not a raw log that cannot be written, not a
\* failed copy into the deployment slot.
C8_CandidateFailuresIsolated ==
    ~(pc = "aborted" /\ exc \in {"OSError:spawn", "OSError:log", "OSError:promote"})

\* C9: the candidate is promoted exactly when its margin is strictly greater
\* than the threshold: the decision goes to promote_network if and only if
\* the margin exceeds the threshold, and the deployment slot changes only for
\* a candidate whose margin exceeds it.
C9_StrictThreshold ==
    [][ /\ (pc = "decide" /\ pc' \notin {"decide", "dead"}) =>
              IF Margin > threshold
              THEN pc' = "promote" /\ promoted'
              ELSE pc' = "record" /\ ~promoted'
        /\ deploy' # deploy => (pc \in {"promote", "copy"} /\ Margin > threshold)
      ]_vars

\* A margin equal to the threshold was decided and did not promote.
C9_Witness ==
    /\ pc = "record"
    /\ ~promoted
    /\ Margin = threshold

\* C10: a completed promotion into a file slot that held an artifact leaves
\* the candidate's bytes in the slot and the previous occupant in the backup,
\* whatever the backup held before.
C10_BackupHoldsPrevious ==
    (pc = "record" /\ promoted /\ prevSlot # None) =>
        /\ deploy.kind = "file"
        /\ deploy.file = Bytes(cur)
        /\ deploy.bak = prevSlot

\* Second promotion in a row: entry 2 is in the slot and the backup, which
\* was written before, now holds entry 1, the occupant just before.
C10_Witness ==
    /\ pc = "record"
    /\ promoted
    /\ cur = 2
    /\ prevSlot = Bytes(1)
    /\ deploy.file = Bytes(2)
    /\ deploy.bak = Bytes(1)

\* C11: after any sequence of promotions the deployment slot holds at most
\* one promoted artifact, for a file slot and for a directory slot alike.
C11_AtMostOnePromoted == Cardinality(InSlot) <= 1

\* The entry promote_network makes in a directory slot for entry e.
SlotEntry(e) == [name |-> FileName(e), bytes |-> Bytes(e)]

\* C12: when the deployment slot is a directory, a promotion copies the
\* candidate into it under the candidate's own file name, makes no backup
\* of anything, and leaves every other entry of the directory as it was;
\* nothing but a promotion changes the directory.
C12_DirectorySlot ==
    [][deploy.kind = "dir" =>
         /\ deploy'.kind = "dir"
         /\ deploy'.bak = None
         /\ deploy'.file = None
         /\ (pc = "copy" /\ pc' = "record") =>
               /\ SlotEntry(cur) \in deploy'.entries
               /\ \A x \in deploy'.entries : x.name = FileName(cur) => x = SlotEntry(cur)
               /\ \A x \in deploy.entries \cup deploy'.entries :
                     x.name # FileName(cur) => (x \in deploy.entries <=> x \in deploy'.entries)
         /\ ~(pc = "copy" /\ pc' = "record") => deploy' = deploy]_vars

\* The second promotion into a directory slot is done: the directory holds
\* what it held at the start and both candidates.
C12_Witness ==
    /\ pc = "record"
    /\ promoted
    /\ cur = 2
    /\ deploy.kind = "dir"
    /\ deploy.entries = {[name |-> "readme.txt", bytes |-> OldBytes], SlotEntry(1), SlotEntry(2)}

\* Positions of main() after run_match has returned.
AfterLog == {"parse", "decide", "promote", "copy", "record", "save", "saving"}

\* C13: for a candidate whose tool run exits 0, the raw log file holds the
\* captured output, line for line, before parse_score is attempted and
\* from then on; when parse_score fails the file is still there with the
\* whole output, and no log file is ever removed or changed.
C13_LogBeforeParse ==
    [][/\ pc' \in AfterLog =>
             [name |-> <<StemOf(cur'), ts'>>, text |-> output'] \in logs'
       /\ (pc = "parse" /\ pc' = "loop") =>
             [name |-> <<StemOf(cur), ts>>, text |-> output] \in logs'
       /\ \A l \in logs : l \in logs']_vars

\* The only run so far exited 0, parse_score failed on its one-line output,
\* and the log of that output is on disk.
C13_Witness ==
    /\ pc = "loop"
    /\ rc = 0
    /\ clock = 1
    /\ doc.state = "absent"
    /\ \E l \in logs : l.text = <<NoiseLine>>

\* No entry of the directory is untested.
NoneUntested == \A e \in dir : RecordedPath(e) \in tested

\* C14: with a poll interval <= 0, main makes exactly one discovery pass
\* (it discovers once, right after its start, and never sleeps), attempts
\* each untested candidate at most once in it (the pass lists distinct
\* untested entries and the loop takes them one by one from the front),
\* and returns 0 when the list is exhausted, which it does in the end
\* (no fault occurs, every child terminates); when the pass finds no
\* untested candidate main returns 0 at once, with no child run and the
\* deployment slot, the history document and the logs untouched.
C14_SinglePass ==
    /\ (interval <= 0) ~> (pc = "exited" /\ exc = "none")
    /\ [][interval <= 0 =>
         /\ pc' # "sleep"
         /\ (pc' = "discover" /\ pc # "discover") => pc = "start"
         /\ (pc = "discover" /\ pc' = "loop") =>
               /\ \A i, j \in 1..Len(queue') : i # j => queue'[i] # queue'[j]
               /\ \A i \in 1..Len(queue') :
                     queue'[i] \in dir /\ RecordedPath(queue'[i]) \notin tested
         /\ (pc # "discover" /\ queue' # queue /\ pc' \in Live) =>
               /\ queue # <<>>
               /\ queue' = Tail(queue)
               /\ cur' = Head(queue)
               /\ pc' = "run"
         /\ (pc' = "run" /\ pc # "run") => queue' # queue
         /\ (pc = "loop" /\ queue = <<>> /\ pc' \notin {"loop", "dead"}) =>
               pc' = "exited"
         /\ (pc = "discover" /\ NoneUntested /\ pc' \notin {"discover", "dead"}) =>
               /\ pc' = "exited"
               /\ UNCHANGED <<doc, deploy, logs, clock, command>>
         /\ pc' = "exited" => exc' = "none"]_vars

\* A process that found no history has run both candidates in its single
\* pass, recorded them and returned 0.
C14_Witness ==
    /\ interval = 0
    /\ pc = "exited"
    /\ loaded = 0
    /\ clock = 2
    /\ doc.state = "ok"
    /\ Len(doc.recs) = 2

\* Enough timestamps are left in the model for the iterations of the running
\* pass and for one more pass over all entries.
Budget == clock + Len(queue) + MaxEntry <= MaxRuns

\* C15: with a poll interval > 0 main never returns: when a pass is over,
\* a pass that found nothing included, it sleeps and then discovers again;
\* so a candidate that is in the directory at any time is eventually run
\* (no fault occurs, every child terminates, time.sleep returns).
C15_PollsForever ==
    /\ [](interval > 0 => pc # "exited")
    /\ [][interval > 0 =>
            /\ (pc = "loop" /\ queue = <<>> /\ pc' # pc) => pc' = "sleep"
            /\ (pc = "sleep" /\ pc' # pc) => pc' = "discover"]_vars
    /\ \A e \in Entries :
          (interval > 0 /\ e \in dir /\ Budget) ~> (pc = "child" /\ cur = e)

\* The only candidate failed in an earlier pass; main slept, discovered it
\* again and is running it a second time.
C15_Witness ==
    /\ interval > 0
    /\ pc = "child"
    /\ cur = 1
    /\ dir = {1}
    /\ rc = 1
    /\ clock = 2

\* C16: when writing the history document fails the error is not ignored:
\* main ends with the exception, leaving the slot and the logs as they are,
\* and a process that has ended runs, promotes and records nothing more
\* (only a new process, started afresh, does).
C16_SaveFailureAborts ==
    [][/\ (pc \in {"save", "saving"} /\ exc' = "OSError:save") =>
             /\ pc' = "aborted"
             /\ UNCHANGED <<dir, deploy, logs, clock, appended>>
       /\ pc = "aborted" =>
             /\ pc' \in {"aborted", "start"}
             /\ UNCHANGED <<doc, deploy, logs, clock, appended>>]_vars

\* The write of the first record failed while a second candidate was still
\* waiting in the directory: the process has ended, one run was made.
C16_Witness ==
    /\ pc = "aborted"
    /\ exc = "OSError:save"
    /\ dir = {1, 2}
    /\ clock = 1
    /\ appended = <<>>

\* C17: a negative promotion threshold is rejected as a configuration error
\* before any candidate is discovered, run, promoted or recorded.
C17_NegativeThresholdRejected ==
    threshold < 0 => pc \in {"start", "aborted", "dead"}

\* The selectors build_tool_command knows.
Supported == {"cutechess", "fastchess"}

\* C18: with a backend selector other than "cutechess" and "fastchess"
\* build_tool_command raises ValueError, and run_match ends with it before
\* a child process is spawned and before a log file is written.
C18_UnsupportedTool ==
    args.tool \notin Supported =>
        /\ pc \in {"run", "aborted"}
        /\ pc = "aborted" => exc = "ValueError"
        /\ command = <<>>
        /\ rc = -1
        /\ logs = {}

\* run_match, called with the selector "Cutechess", has ended with the
\* ValueError.
C18_Witness ==
    /\ args.tool = "Cutechess"
    /\ pc = "aborted"
    /\ exc = "ValueError"
    /\ logs = {}

\* C19: for every W-L-D triplet reported baseline-first, each of the four
\* grammars makes parse_score return points_baseline = W + D/2 and
\* points_candidate = L + D/2 (here in half points: 2W + D and 2L + D);
\* 10-4-6 gives (13, 7).
C19_GrammarsAgree ==
    \A g \in 1..4, t \in Triplets, n \in PrintedNames :
        (output = Report(g, t, BaselineName, n) /\ pc # "parse") =>
            /\ stats.err = "none"
            /\ stats.points_baseline = 2 * t[1] + t[3]
            /\ stats.points_candidate = 2 * t[2] + t[3]

\* "Final score: baseline 13.0 - 7.0 net1", the report of 10-4-6, has been
\* parsed to 13 and 7 points.
C19_Witness ==
    /\ pc = "decide"
    /\ output = Report(3, <<10, 4, 6>>, BaselineName, CandidateName(1))
    /\ stats.points_baseline = 26
    /\ stats.points_candidate = 14

\* What parse_score and the decision make of the line "Score of n vs
\* baseline: W - L - D" when they take n for the candidate: W is the
\* candidate's wins, L the baseline's.
ReadBaselineSecond(t) ==
    /\ stats.err = "none"
    /\ stats.wins = 2 * t[2]
    /\ stats.losses = 2 * t[1]
    /\ stats.draws = 2 * t[3]
    /\ stats.points_baseline = 2 * t[2] + t[3]
    /\ stats.points_candidate = 2 * t[1] + t[3]
    /\ pc \in {"promote", "record"} =>
          (promoted <=> (2 * t[1] + t[3]) - (2 * t[2] + t[3]) > threshold)

C21_NormalizedWhicheverFirst ==
    \A g \in {1, 3}, t \in Triplets :
        (output = Report(g, t, CandidateName(1), BaselineName) /\ pc # "parse") =>
            /\ stats.err = "none"
            /\ stats.points_baseline = 2 * t[2] + t[3]
            /\ stats.points_candidate = 2 * t[1] + t[3]

\* C22: when the output holds several summary lines of one grammar,
\* parse_score returns the values of the last of them, the final report.
C22_LastLineWins ==
    \A g \in 1..4, t \in Triplets :
        (output = Running(g, t) /\ pc # "parse") =>
            /\ stats.err = "none"
            /\ stats.points_baseline = 2 * t[1] + t[3]
            /\ stats.points_candidate = 2 * t[2] + t[3]

\* C23: every record written to the history document has non-negative
\* points whose sum is at most the number of rounds (points are in half
\* points here), whatever the tool printed.
C23_PointsWithinRounds ==
    \A i \in 1..Len(doc.recs) :
        /\ doc.recs[i].points_baseline >= 0
        /\ doc.recs[i].points_candidate >= 0
        /\ doc.recs[i].points_baseline + doc.recs[i].points_candidate
              <= 2 * args.rounds

\* The index in the patterns list of the first pattern, in the list's order
\* as the code has it, that one of the two grammars g1, g2 belongs to.
FirstOf(g1, g2) == IF g1 < g2 THEN g1 ELSE g2

\* C28: parse_score tries the patterns in the order Score of, Wins=, Final
\* score, Result and returns the statistics of the first of them that
\* matches anywhere in the text, wherever the lines of the other grammars
\* stand: of two lines of different grammars the one whose pattern comes
\* first in the list is taken, be it the first or the second line.
C28_PatternOrder ==
    \A g1, g2 \in 1..4 :
        (output = Mixed(g1, g2) /\ g1 # g2 /\ pc # "parse") =>
            /\ stats.err = "none"
            /\ FirstOf(g1, g2) = g1 =>
                  stats.points_baseline = 2 /\ stats.points_candidate = 0
            /\ FirstOf(g1, g2) = g2 =>
                  stats.points_baseline = 1 /\ stats.points_candidate = 5

\* "Result: 1-0-0" stands before "Score of baseline vs net1: 0 - 2 - 1";
\* the Score line, second in the text, has been taken.
C28_Witness ==
    /\ pc = "decide"
    /\ output = Mixed(4, 1)
    /\ stats.points_baseline = 1
    /\ stats.points_candidate = 5

\* C24: the tested set and the discovery filter use one canonical form of a
\* path: a history entry that denotes the file of a discovered candidate,
\* however its path is spelled, keeps that candidate out of the list, so the
\* tool is never run on it.
C24_FilterCanonical ==
    \A e \in Entries :
        (pc \in {"run", "child"} /\ cur = e) =>
            ~\E i \in 1..Len(doc.recs) : doc.recs[i].candidate \in Spellings(e)

\* C25: when no history document exists load_history returns the empty
\* sequence and the first run is not an error: main goes on with an empty
\* history and an empty tested set, and its pass lists every candidate of
\* the directory.
C25_FirstRun ==
    [][/\ (pc = "start" /\ doc.state = "absent" /\ pc' # pc) =>
             /\ pc' = "discover"
             /\ exc' = "none"
             /\ history' = <<>>
             /\ tested' = {}
       /\ (pc = "discover" /\ tested = {} /\ pc' = "loop") =>
             {queue'[i] : i \in 1..Len(queue')} = dir]_vars

\* The first pass of a first run has listed both candidates.
C25_Witness ==
    /\ pc = "loop"
    /\ doc.state = "absent"
    /\ loaded = 0
    /\ clock = 0
    /\ history = <<>>
    /\ tested = {}
    /\ queue = <<1, 2>>

\* The flags build_tool_command generates for the running child, without the
\* extra arguments.
Generated ==
    IF args.tool = "fastchess"
    THEN FastchessCommand(ToolPath, EnginePath, BaselineNetwork, cur,
                          args.rounds, args.concurrency, args.opening,
                          args.moves, args.time_control, args.threads,
                          args.adjudication)
    ELSE CutechessCommand(ToolPath, EnginePath, BaselineNetwork, cur,
                          args.rounds, args.concurrency, args.opening,
                          args.moves, args.time_control, args.threads,
                          args.adjudication)

\* C26: for both backends the argument list starts with the tool path and
\* ends with the extra arguments, as given and in their order, after every
\* generated flag.
C26_ExtraArgsLast ==
    pc = "child" =>
        /\ command[1] = <<"path", PathStr(ToolPath)>>
        /\ Len(command) = Len(Generated) + Len(args.extra_args)
        /\ SubSeq(command, 1, Len(Generated)) = Generated
        /\ SubSeq(command, Len(Generated) + 1, Len(command)) = args.extra_args

\* A cutechess child runs with a -resign flag generated and the two extra
\* arguments -a -b at the end of its argument list.
C26_Witness ==
    /\ pc = "child"
    /\ args.tool = "cutechess"
    /\ args.adjudication = 60
    /\ args.extra_args = <<Lit("-a"), Lit("-b")>>
    /\ command[Len(command) - 1] = Lit("-a")
    /\ command[Len(command)] = Lit("-b")

\* The argument list of the running child without its extra arguments, and
\* the places of the engine flags in it.
OwnArgs == SubSeq(command, 1, Len(command) - Len(args.extra_args))
EngineAt ==
    {i \in 1..Len(OwnArgs) : OwnArgs[i] \in {Lit("-engine"), Lit("--engine")}}

\* The four settings after the engine flag at place i declare a participant
\* of the given name and network, with the engine and thread count of args.
Declares(i, name, network) ==
    /\ i + 4 <= Len(OwnArgs)
    /\ OwnArgs[i + 1] = <<"name=", name>>
    /\ OwnArgs[i + 2] = <<"cmd=", PathStr(EnginePath)>>
    /\ OwnArgs[i + 3] = <<"option.EvalFile=", PathStr(network)>>
    /\ OwnArgs[i + 4] = <<"option.Threads=", args.threads>>

\* C27: for both backends the command declares exactly two participants, in
\* this order: "baseline" with the baseline network, then the candidate
\* file's stem with the candidate network, both with the same engine binary
\* and thread count.
C27_TwoParticipants ==
    pc = "child" =>
        /\ Cardinality(EngineAt) = 2
        /\ Cardinality({i \in 1..Len(OwnArgs) : OwnArgs[i][1] = "name="}) = 2
        /\ \E i, j \in EngineAt :
              /\ i < j
              /\ Declares(i, BaselineName, BaselineNetwork)
              /\ Declares(j, <<StemOf(cur)>>, CandidatePath(cur))

\* A fastchess child runs for net2.nnue with four threads per engine.
C27_Witness ==
    /\ pc = "child"
    /\ args.tool = "fastchess"
    /\ args.threads = 4
    /\ cur = 2
    /\ <<"name=", <<"net2">> >> \in {command[i] : i \in 1..Len(command)}

\* C29: at most one child process of the match tool runs at any time (one
\* is started only when none runs, and runs only while main waits for it),
\* and when the run of a candidate starts nothing of an earlier candidate
\* is left to do: its output, statistics and summary are gone and the
\* history document holds every record appended so far.
C29_OneCandidateAtATime ==
    /\ [](command # <<>> => pc = "child")
    /\ [][(command' # <<>> /\ command' # command) =>
              (command = <<>> /\ pc = "run")]_vars
    /\ [][(pc' = "run" /\ pc # "run") =>
              /\ pc = "loop"
              /\ command = <<>>
              /\ output = <<>>
              /\ stats = NoStats
              /\ pending = None
              /\ doc.state # "torn"
              /\ load_history(doc) = history]_vars

\* The run of the second candidate is about to start; the record of the
\* first is in the document.
C29_Witness ==
    /\ pc = "run"
    /\ cur = 2
    /\ clock = 2
    /\ command = <<>>
    /\ Len(doc.recs) = 1
    /\ doc.recs[1].candidate = RecordedPath(1)

\* The directory entry a record is about.
EntryOf(rec) == CHOOSE e \in Entries : RecordedPath(e) = rec.candidate

\* The sequence of numbers q is strictly ascending.
Ascending(q) == \A i, j \in 1..Len(q) : i < j => q[i] < q[j]

\* C30: within a cycle the untested candidates are evaluated in the
\* lexicographic order of their paths (entries are numbered in that
\* order): the list of a pass is ascending, the loop takes its first
\* element each time, and the record of the candidate being evaluated goes
\* to the end of the history; so the records of a single-pass run stand in
\* the history in ascending order.
C30_LexicographicOrder ==
    /\ [](Ascending(queue) /\ (cur # 0 /\ queue # <<>> => cur < Head(queue)))
    /\ [][(pc = "loop" /\ pc' = "run") =>
              (cur' = Head(queue) /\ queue' = Tail(queue))]_vars
    /\ [][(pc = "record" /\ pc' = "save") =>
              /\ Len(history') = Len(history) + 1
              /\ SubSeq(history', 1, Len(history)) = history
              /\ history'[Len(history')].candidate = RecordedPath(cur)]_vars
    /\ [](interval <= 0 =>
            Ascending([i \in 1..Len(history) |-> EntryOf(history[i])]))

\* A single pass has evaluated and recorded net1.nnue, then net2.nnue.
C30_Witness ==
    /\ interval = 0
    /\ pc = "loop"
    /\ queue = <<>>
    /\ Len(history) = 2
    /\ EntryOf(history[1]) = 1
    /\ EntryOf(history[2]) = 2

\* C31: at every discovery step the tested set in memory is the set of the
\* candidate paths of the records in the history document on disk, which is
\* whole at that point; in the first pass of a fresh process, started after
\* a kill or not, and in every later pass of a continuous run.
C31_TestedMatchesDocument ==
    pc = "discover" =>
        /\ doc.state # "torn"
        /\ tested = {doc.recs[i].candidate : i \in 1..Len(doc.recs)}

\* A process started on a document of one record has evaluated a second
\* candidate, slept, and stands at its next discovery step with both paths in
\* its tested set.
C31_Witness ==
    /\ pc = "discover"
    /\ interval > 0
    /\ loaded = 1
    /\ clock = 2
    /\ Len(doc.recs) = 2
    /\ Cardinality(tested) = 2

\* Point margin of a record, candidate over baseline.
MarginOf(rec) == rec.points_candidate - rec.points_baseline

\* C32: when several candidates of one pass clear the threshold, the
\* artifact in a file slot at the end of the pass is the best performer
\* among them: the slot holds a promoted candidate of the pass whose margin
\* is not below that of any other promoted one.
C32_BestPerformerInSlot ==
    (pc = "loop" /\ queue = <<>> /\ deploy.kind = "file") =>
        \A i \in 1..Len(history) :
            history[i].promoted =>
                \E j \in 1..Len(history) :
                    /\ history[j].promoted
                    /\ deploy.file = Bytes(EntryOf(history[j]))
                    /\ MarginOf(history[j]) >= MarginOf(history[i])

\* C33: every match of a run, those after a promotion included, is
\* launched with the configured baseline network as the participant named
\* "baseline", and that file holds what it held when main started: a
\* promotion does not change what later candidates are compared against.
C33_FixedBaseline ==
    pc = "child" =>
        /\ \E i \in EngineAt : Declares(i, BaselineName, BaselineNetwork)
        /\ BaselineFile = BaselineBytes

\* C34: a candidate whose margin does not exceed the threshold goes to its
\* record with the deployment slot and the backup as they were, its record
\* says promoted = false, and with the record its path enters the tested
\* set; the record of any candidate carries the decision made for it, and
\* says promoted = true only when the slot holds the candidate's bytes, the
\* copy being done.  The record reaches the document as it was appended.
C34_RejectedLeavesSlot ==
    /\ [][(pc = "decide" /\ pc' \notin {"decide", "dead"} /\ Margin <= threshold) =>
              /\ pc' = "record"
              /\ ~promoted'
              /\ deploy' = deploy]_vars
    /\ [][(pc \in {"record", "save", "saving"} /\ ~promoted) =>
              deploy' = deploy]_vars
    /\ [][(pc = "record" /\ pc' = "save") =>
              /\ Len(history') = Len(history) + 1
              /\ history'[Len(history')].candidate = RecordedPath(cur)
              /\ history'[Len(history')].promoted = promoted
              /\ RecordedPath(cur) \in tested'
              /\ promoted => cur \in InSlot]_vars
    /\ [][(pc = "saving" /\ pc' = "loop") =>
              /\ doc'.state = "ok"
              /\ doc'.recs = history
              /\ doc'.recs[Len(history)].promoted = promoted]_vars

\* The first candidate's margin equalled the threshold: its record, with
\* promoted = false, is in the document, and the file slot and the absent
\* backup are as they were at the start.
C34_Witness ==
    /\ pc = "loop"
    /\ threshold = 1
    /\ Len(doc.recs) = 1
    /\ ~doc.recs[1].promoted
    /\ doc.recs[1].points_candidate - doc.recs[1].points_baseline = 1
    /\ deploy = [kind |-> "file", file |-> OldBytes, bak |-> None, entries |-> {}]

\* The matched line m carries the names of both participants.
HasNames(m) == m.k \in {"score", "final"}

\* The first and the second number of the matched line m, in half points.
FirstNumber(m) == IF m.k = "final" THEN m.pa ELSE 2 * m.w
SecondNumber(m) == IF m.k = "final" THEN m.pb ELSE 2 * m.l

\* parse_score has returned the two numbers of the line m in the opposite
\* order.
Swapped(m) == stats.wins = SecondNumber(m) /\ stats.losses = FirstNumber(m)

\* C35: parse_score swaps the two results of the matched line exactly when
\* the line names both participants and the baseline identifier is not a
\* substring of the first name; a first name that holds the identifier,
\* the candidate's own included, causes no swap.  Stated for outputs of one
\* summary line whose two numbers differ.
C35_SwapExactlyWhen ==
    (Len(output) = 1 /\ pc # "parse" /\ output[1].k # "noise"
     /\ FirstNumber(output[1]) # SecondNumber(output[1])) =>
        (Swapped(output[1]) <=>
            (HasNames(output[1]) /\ ~Contains(output[1].a, BaselineName)))

\* C36: when the tool exits with a non-zero status run_match writes no log
\* file for the attempt and hands no output to main, which goes on with the
\* loop; a log file comes into being only in an attempt whose run exited 0,
\* under the name of that attempt and with that run's output.
C36_NoLogOnFailure ==
    /\ [][(pc = "child" /\ rc' # 0 /\ pc' # "child") =>
              /\ pc' \in {"loop", "dead"}
              /\ logs' = logs
              /\ output' = <<>>
              /\ ~\E l \in logs' : l.name = <<StemOf(cur), ts>>]_vars
    /\ [][logs' # logs =>
              /\ pc = "log"
              /\ rc = 0
              /\ logs' \ logs = {[name |-> <<StemOf(cur), ts>>, text |-> output]}]_vars

\* The first attempt of the process ended with status 1 and left no file;
\* the second exited 0 and its log is the only one.
C36_Witness ==
    /\ pc = "parse"
    /\ clock = 2
    /\ ts = 2
    /\ rc = 0
    /\ doc.state = "absent"
    /\ Cardinality(logs) = 1
    /\ \A l \in logs : l.name[2] = 2

\* An info line said a best move and a score: a scored update.
IsScored(m) == m.move # "" /\ m.score # None

\* The scored updates among the lines q, in order.
Scored(q) == SelectSeq(q, IsScored)

\* Length of the run that ends at place n of the scored updates q: the
\* updates back from q[n] that keep the best move, each score within the
\* threshold of the one before.
RECURSIVE RunLength(_, _)
RunLength(q, n) ==
    IF n = 0 THEN 0
    ELSE IF n = 1 THEN 1
    ELSE IF /\ q[n].move = q[n - 1].move
            /\ Abs(q[n].score[1] - q[n - 1].score[1]) <= StabilityThreshold
         THEN 1 + RunLength(q, n - 1)
    ELSE 1

\* C37: after any sequence of info lines the stability counter is the
\* length of the current run of scored updates with one best move and
\* successive scores no more than the threshold apart, and the last move
\* and score are those of the last scored update; a scored update with
\* another best move or a larger jump sets the counter to 1, one that
\* continues the run adds 1, and a line without a pv or without a cp or
\* mate score with a number leaves the tracker as it is.
C37_StabilityIsRunLength ==
    /\ [](LET q == Scored(fed)
          IN /\ tracker.stability = RunLength(q, Len(q))
             /\ q = <<>> => tracker = NewTracker
             /\ q # <<>> =>
                   /\ tracker.last_move = q[Len(q)].move
                   /\ tracker.last_score = q[Len(q)].score)
    /\ [][fed' # fed =>
            LET m == fed'[Len(fed')]
            IN IF ~IsScored(m) THEN tracker' = tracker
               ELSE IF /\ tracker.last_move = m.move
                       /\ tracker.last_score # None
                       /\ Abs(m.score[1] - tracker.last_score[1]) <= StabilityThreshold
                    THEN tracker'.stability = tracker.stability + 1
               ELSE tracker'.stability = 1]_vars

\* Score 20 with best move e2e4, then a line without a score, then score 50
\* with the same best move: the difference is the threshold itself and the
\* run is two updates long.
C37_Witness ==
    /\ Len(fed) = 3
    /\ fed[1] = [move |-> "e2e4", score |-> <<20>>]
    /\ fed[2].score = None
    /\ fed[3] = [move |-> "e2e4", score |-> <<50>>]
    /\ tracker.stability = 2
    /\ tracker.last_score = <<50>>

\* C38: run skips a network whose target exists and leaves the file as it
\* is, unless force is set; a failed download removes the target it may
\* have begun and the loop goes on with the networks that remain; and the
\* exit code run returns is 1 if and only if a download or a checksum
\* verification failed, else 0.
C38_RunHandlesEveryNetwork ==
    /\ [][(/\ fetch.pc = "loop"
           /\ fetch.networks # <<>>
           /\ output_dir[Head(fetch.networks)] # Absent
           /\ ~fetch.force) =>
              /\ output_dir' = output_dir
              /\ fetch'.pc = "loop"
              /\ fetch'.networks = Tail(fetch.networks)]_vars
    /\ [][(fetch.pc = "download" /\ fetch'.pc \notin {"download", "verify"}) =>
              /\ output_dir'[fetch.name] = Absent
              /\ fetch'.pc = "loop"
              /\ fetch'.networks = fetch.networks]_vars
    /\ [](fetch.pc = "returned" =>
              (fetch.exit_code = 1 <=> fetch.failures # {}))
    /\ [](fetch.exit_code \in {0, 1})

====
